---- MODULE Spec2Model ----
(***************************************************************************)
(* The subscription/notification engine of herestate.                      *)
(*                                                                         *)
(* Two implementations of the Broker engine are modelled side by side:     *)
(*   variant = "Broker"        src/src/Broker.tsx        useCore           *)
(*             (the emitted ids are React state, `resetUpdates` flag)      *)
(*   variant = "BrokerWriter"  src/src/Subscription.tsx  useCore (l. 146)  *)
(*             (the emitted ids are an array local to one render)          *)
(*                                                                         *)
(* One cycle of the engine is one React commit of the Provider:            *)
(*   Transition   the render: the hook runs, returns the next state and    *)
(*                calls update(id) for the ids it emits; when no effect    *)
(*                of a descendant is pending the commit continues into     *)
(*                the Provider's effect at once                            *)
(*   ConsumerEffect  effects of descendants rendered in the same commit    *)
(*                (React runs the effects of children before the effects   *)
(*                of their ancestors)                                      *)
(*   EffectStart / NotifyStep / NotifyNext / EffectEnd                     *)
(*                the Provider's own effect: ref.current = state and the   *)
(*                two nested for-of loops, one callback invocation a step  *)
(* Everything is single threaded: while a commit is in progress no other   *)
(* top-level operation is enabled.  `calls` records the invocations the    *)
(* latest operation made; Returned drops the record.                       *)
(*                                                                         *)
(* Specifications, all over the same variables:                            *)
(*   Spec   the engine with subscribe/unsubscribe calls and one consumer   *)
(*   SpecW  the hook's writer, its memo and the Provider's three contexts  *)
(*   SpecT  hook runs that throw after they emitted                        *)
(*   SpecU  unsubscribe on registries of any shape                         *)
(*   SpecC  the life of a useSubscription consumer, unmount included       *)
(*   SpecS  the single-writer Subscription (src/src/Subscription.tsx,      *)
(*          useCore of l. 29, variant = "Subscription"), whose             *)
(*          subscribers are a Set                                          *)
(***************************************************************************)
EXTENDS Integers, Sequences, FiniteSets, TLC

\* ---------------------------------------------------------------- bounds
MaxState == 2      \* number of state-changing transitions explored
MaxEmit == 2       \* update(id) calls made by one run of the hook
MaxSubs == 2       \* registrations the registry holds in total
MaxPending == 3    \* length of the Pending Updates after runs that threw
MaxLen == 3        \* length of an identifier's array in a drawn registry

\* ------------------------------------------------------------ value sets
Ids == {"a", "b"}

Variants == {"Broker", "BrokerWriter"}

\* Callbacks (Broker.Sub<S>): functions of the state, compared by reference.
\*   "f"        records the state it is given
\*   "until"    waits for a change: given a State other than the initial
\*              one, it unsubscribes itself
\*   "setState" the state setter a useSubscription consumer registers
Generic == {"f", "until"}
Callbacks == Generic \cup {"setState"}

\* the ids "until" passes to unsubscribe
UntilIds == <<"a", "b">>

\* the ids of the modelled useSubscription consumer
ConsumerIds == <<"a">>

SeqsUpTo(S, n) == UNION {[1..k -> S] : k \in 0..n}

\* arrays of identifiers: empty, one id, several ids, the same id twice
IdLists == SeqsUpTo(Ids, Cardinality(Ids))

\* `ids: string | string[]`: a scalar identifier or an array of identifiers
IdArgs ==
    {[isArray |-> FALSE, id |-> x, list |-> <<>>] : x \in Ids}
        \cup {[isArray |-> TRUE, id |-> "", list |-> l] : l \in IdLists}

ArrayArg(l) == [isArray |-> TRUE, id |-> "", list |-> l]

\* ------------------------------------------------------------ variables
VARIABLES
    variant,        \* which useCore is running
    state,          \* the State the hook returned in the latest render
    stateChanged,   \* the latest render's state differs from the one before
    ref,            \* ref.current, the Snapshot Reference
    updates,        \* the Pending Updates array
    resetUpdates,   \* resetUpdates.current (Broker.tsx only)
    subs,           \* subs.current: identifier -> array of callbacks
    pc,             \* "idle" | "rendered" | "notify" | "failed" | "unmounted"
    i,              \* position of `for (const id of updates)`
    j,              \* position of `for (const f of cbs)`
    \* the useSubscription consumer
    subbed,         \* its `subbed` flag (Subscription.tsx)
    ids,            \* its `ids` (state in Broker.tsx, argument in Subscription.tsx)
    localState,     \* its local `state`, written by setState
    effectPending,  \* its effect's dependency changed: the effect will run
    cleanup,        \* the cleanup its effect returned: [has, ids]
    \* observation of the run (history, not program state)
    calls,          \* callback invocations made by the latest step
    passLog,        \* notifications of the running notify pass, in order
    passSubs,       \* the registry when the running notify pass began
    emitted,        \* ids the running transition emitted, in order
    unreg,          \* <<cb, id>>: unregistered, not registered since, still listed
    \* the writer and the Provider's contexts (Subscription.tsx)
    writer,         \* the writer the hook returned in the latest render
    w,              \* useMemo(() => writer, [...objectUnpack(writer)])
    refCtx,         \* RefContext's value:    useMemo(() => ctx, [])
    stateCtx,       \* StateContext's value:  useMemo(() => ctx, [ctx.state])
    writerCtx,      \* WriterContext's value: useMemo(() => ctx, [ctx.writer])
    \* the tree
    mounted,        \* the consumer is mounted
    \* the single-writer Subscription (Subscription.tsx, l. 29)
    subsSet,        \* subs.current: a Set, in insertion order
    \* observation of hook runs that threw (history)
    lost            \* ids emitted by hook runs that threw and by no commit since

vars == <<variant, state, stateChanged, ref, updates, resetUpdates, subs, pc, i, j,
          subbed, ids, localState, effectPending, cleanup,
          calls, passLog, passSubs, emitted, unreg,
          writer, w, refCtx, stateCtx, writerCtx, mounted, subsSet, lost>>

coreVars == <<variant, state, stateChanged, ref, updates, resetUpdates, pc, i, j>>
consumerVars == <<subbed, ids, localState, effectPending, cleanup>>
passVars == <<passLog, passSubs, emitted>>
viewVars == <<writer, w, refCtx, stateCtx, writerCtx>>
failVars == <<lost>>
extVars == <<viewVars, mounted, subsSet, failVars>>

\* -------------------------------------------------------------- helpers
Range(s) == {s[k] : k \in DOMAIN s}

Count(s, x) == Cardinality({k \in DOMAIN s : s[k] = x})

\* Array.isArray(ids) ? ids : [ids]
Unscalar(x) == IF x.isArray THEN x.list ELSE <<x.id>>

\* s.indexOf(sub): the first position holding sub, 0 for the code's -1
IndexOf(s, sub) ==
    IF \E k \in DOMAIN s : s[k] = sub
    THEN CHOOSE k \in DOMAIN s : s[k] = sub /\ \A m \in 1..(k - 1) : s[m] # sub
    ELSE 0

\* s.splice(index, 1)
Splice(s, index) == SubSeq(s, 1, index - 1) \o SubSeq(s, index + 1, Len(s))

\* the loop of subscribe: s.push(sub) under every id of the list.  An absent
\* array (subs.current[id] === undefined) is the empty sequence here.
RECURSIVE PushAll(_, _, _)
PushAll(m, l, sub) ==
    IF l = <<>> THEN m
    ELSE PushAll([m EXCEPT ![Head(l)] = Append(@, sub)], Tail(l), sub)

\* one iteration of the loop of unsubscribe
RemoveFirst(s, sub) == IF IndexOf(s, sub) # 0 THEN Splice(s, IndexOf(s, sub)) ELSE s

\* the loop of unsubscribe
RECURSIVE RemoveAll(_, _, _)
RemoveAll(m, l, sub) ==
    IF l = <<>> THEN m
    ELSE RemoveAll([m EXCEPT ![Head(l)] = RemoveFirst(@, sub)], Tail(l), sub)

Pairs(l, sub) == {<<sub, l[k]>> : k \in DOMAIN l}

\* The history variable unreg follows the pairs <<cb, id>> for which an
\* unsubscribe(.. id .., cb) has returned with no subscribe(.. id .., cb) since.
\* A pair whose callback is in no array of id cannot be notified before it is
\* subscribed again, so only the pairs still listed in registry m are kept.
Listed(m, u) == {p \in u : Count(m[p[2]], p[1]) > 0}

\* Whether the invocation f(arg) calls unsubscribe(UntilIds, f)
Leaves(f, arg) == f = "until" /\ arg # 0

\* What the invocation f(arg) does to the registry
InvokeSubs(m, f, arg) == IF Leaves(f, arg) THEN RemoveAll(m, UntilIds, f) ELSE m

InvokeUnreg(u, f, arg) == IF Leaves(f, arg) THEN u \cup Pairs(UntilIds, f) ELSE u

\* ... and to the consumer's local state: setState(arg)
InvokeLocal(l, f, arg) == IF f = "setState" THEN arg ELSE l

Boot(sub, arg) == [kind |-> "boot", cb |-> sub, id |-> "", arg |-> arg]

Notified(f, id, arg) == [kind |-> "notify", cb |-> f, id |-> id, arg |-> arg]

RECURSIVE Sum(_, _)
Sum(g, S) == IF S = {} THEN 0 ELSE LET x == CHOOSE y \in S : TRUE IN g[x] + Sum(g, S \ {x})

\* registrations held by the registry m
Registered(m) == Sum([id \in Ids |-> Len(m[id])], Ids)

\* the registry has room for the pushes of the call
Room(m, l) == Registered(m) + Len(l) <= MaxSubs

\* --------------------------------------------------------------- writer
\* A writer is an object: its fields <<key, value>> in the order `for (const
\* k in obj)` enumerates them, and which object with those fields it is
\* (objects are compared by reference; the values are functions).
FieldLists ==
    { <<>>,
      << <<"inc", "f1">> >>,
      << <<"inc", "f2">> >>,
      << <<"inc", "f1">>, <<"dec", "f2">> >>,
      << <<"dec", "f2">>, <<"inc", "f1">> >> }

\* one object for every list of fields, and a second object { inc: f1 }
Writers ==
    {[fields |-> f, copy |-> 1] : f \in FieldLists}
        \cup {[fields |-> << <<"inc", "f1">> >>, copy |-> 2]}

\* Broker.tsx has no writer
NoWriter == [fields |-> <<>>, copy |-> 1]

\* objectUnpack(obj): [...keys, ...values]
objectUnpack(obj) ==
    [k \in 1..Len(obj.fields) |-> obj.fields[k][1]]
        \o [k \in 1..Len(obj.fields) |-> obj.fields[k][2]]

Min(a, b) == IF a <= b THEN a ELSE b

\* How useMemo compares its dependency array with the one it stored: element
\* by element over the positions both arrays have.
areHookInputsEqual(nextDeps, prevDeps) ==
    \A k \in 1..Min(Len(nextDeps), Len(prevDeps)) : nextDeps[k] = prevDeps[k]

\* the fields of a writer as a set: which keys it has, with which values
FieldSet(obj) == {obj.fields[k] : k \in DOMAIN obj.fields}

\* ----------------------------------------------------------------- Init
\* The tree has mounted: the Provider of engine v holds the initial State and
\* the writer wr, earlier subscribe calls have left the registry m, the
\* consumer has rendered and its mount effect has subscribed setState under
\* its ids l.
Start(v, m, l, wr) ==
    /\ variant = v
    /\ state = 0
    /\ stateChanged = FALSE
    /\ ref = 0
    /\ updates = <<>>
    /\ resetUpdates = FALSE
    /\ subs = PushAll(m, l, "setState")
    /\ pc = "idle"
    /\ i = 1
    /\ j = 1
    /\ subbed = TRUE
    /\ ids = l
    /\ localState = 0
    /\ effectPending = FALSE
    /\ cleanup = [has |-> TRUE, ids |-> l]
    /\ calls = <<>>
    /\ passLog = <<>>
    /\ passSubs = [id \in Ids |-> <<>>]
    /\ emitted = <<>>
    /\ unreg = {}
    /\ writer = wr
    /\ w = wr
    /\ refCtx = [state |-> 0, writer |-> wr]
    /\ stateCtx = [state |-> 0, writer |-> wr]
    /\ writerCtx = [state |-> 0, writer |-> wr]
    /\ mounted = TRUE
    /\ subsSet = IF v = "Subscription" THEN <<"setState">> ELSE <<>>
    /\ lost = {}

NoSubs == [id \in Ids |-> <<>>]

Init == \E v \in Variants : Start(v, NoSubs, ConsumerIds, NoWriter)

\* No commit is in progress and the latest operation has returned.
Idle == pc = "idle" /\ calls = <<>>

\* The latest operation has returned to its caller: the record of the
\* invocations it made is dropped before the next operation begins.
Returned ==
    /\ pc = "idle"
    /\ calls # <<>>
    /\ calls' = <<>>
    /\ UNCHANGED <<coreVars, subs, consumerVars, passVars, unreg, extVars>>

\* ------------------------------------------------------------- registry
\* subscribe(ids, sub): push under every id, then bootstrap sub(ref.current)
SubscribeSubs(m, x, sub, snapshot) ==
    InvokeSubs(PushAll(m, Unscalar(x), sub), sub, snapshot)

\* (a subscribe that bootstraps inside its loop, once per id)
SubscribeCallsPerId(x, sub, snapshot) ==
    [k \in 1..Len(Unscalar(x)) |-> Boot(sub, snapshot)]

\* the invocations subscribe makes: sub(ref.current), once, after the loop
SubscribeCalls(x, sub, snapshot) == <<Boot(sub, snapshot)>>

Subscribe(x, sub) ==
    /\ Idle
    /\ Room(subs, Unscalar(x))
    /\ subs' = SubscribeSubs(subs, x, sub, ref)
    /\ calls' = SubscribeCalls(x, sub, ref)
    /\ unreg' = Listed(subs', InvokeUnreg(unreg \ Pairs(Unscalar(x), sub), sub, ref))
    /\ UNCHANGED <<coreVars, consumerVars, passVars, extVars>>

\* unsubscribe(ids, sub)
UnsubscribeSubs(m, x, sub) == RemoveAll(m, Unscalar(x), sub)

Unsubscribe(x, sub) ==
    /\ Idle
    /\ subs' = UnsubscribeSubs(subs, x, sub)
    /\ calls' = <<>>
    /\ unreg' = Listed(subs', unreg \cup Pairs(Unscalar(x), sub))
    /\ UNCHANGED <<coreVars, consumerVars, passVars, extVars>>

\* ------------------------------------------------------------- consumer
\* setSubbed(v) of Subscription.tsx's useSubscriptions; React ignores a set to
\* the value the state already has.  The effect depends on [subbed]: it will
\* run if the flag differs from the one it last ran with, which is the one
\* that decided whether it returned a cleanup.
SetSubbed(v) ==
    /\ Idle
    /\ mounted
    /\ variant # "Broker"
    /\ v # subbed
    /\ subbed' = v
    /\ effectPending' = (v # cleanup.has)
    /\ calls' = <<>>
    /\ UNCHANGED <<coreVars, subs, ids, localState, cleanup, passVars, unreg, extVars>>

\* setIds(l) of Broker.tsx's useSubscription, with a fresh array: the consumer
\* drops its ids (setIds([])) or takes them up again.  The effect depends on
\* [ids] and a fresh array is a changed dependency.
SetIds(l) ==
    /\ Idle
    /\ mounted
    /\ variant = "Broker"
    /\ l # ids
    /\ ids' = l
    /\ effectPending' = TRUE
    /\ calls' = <<>>
    /\ UNCHANGED <<coreVars, subs, subbed, localState, cleanup, passVars, unreg, extVars>>

\* the condition under which the consumer's effect subscribes
Active == IF variant = "Broker" THEN Len(ids) > 0 ELSE subbed

\* The consumer's effect: the previous cleanup, then the effect body.  It runs
\* in a commit of its own (pc = "idle") or in the commit of a transition, where
\* it precedes the Provider's effect (pc = "rendered").
ConsumerEffect ==
    /\ Idle \/ pc = "rendered"
    /\ variant \in Variants
    /\ effectPending
    /\ LET cleaned == IF cleanup.has THEN RemoveAll(subs, cleanup.ids, "setState") ELSE subs
           gone == IF cleanup.has THEN Pairs(cleanup.ids, "setState") ELSE {}
       IN  IF Active
           THEN /\ Room(cleaned, ids)
                /\ subs' = SubscribeSubs(cleaned, ArrayArg(ids), "setState", ref)
                /\ calls' = SubscribeCalls(ArrayArg(ids), "setState", ref)
                /\ localState' = ref
                /\ cleanup' = [has |-> TRUE, ids |-> ids]
                /\ unreg' = Listed(subs', (unreg \cup gone) \ Pairs(ids, "setState"))
           ELSE /\ subs' = cleaned
                /\ calls' = <<>>
                /\ localState' = localState
                /\ cleanup' = [has |-> FALSE, ids |-> <<>>]
                /\ unreg' = Listed(subs', unreg \cup gone)
    /\ effectPending' = FALSE
    /\ UNCHANGED <<coreVars, subbed, ids, passVars, extVars>>

\* ----------------------------------------------------------- transition
\* update(id) of Broker.tsx, on the pair (updates, resetUpdates.current)
update(u, id) ==
    IF u.reset
    THEN [reset |-> FALSE, list |-> <<id>>]
    ELSE [reset |-> u.reset, list |-> Append(u.list, id)]

RECURSIVE UpdateAll(_, _)
UpdateAll(u, e) == IF e = <<>> THEN u ELSE UpdateAll(update(u, Head(e)), Tail(e))

\* the Pending Updates the render leaves for the effect
RenderUpdates(e) ==
    IF variant = "Broker"
    THEN UpdateAll([reset |-> resetUpdates, list |-> updates], e)
    ELSE [reset |-> resetUpdates, list |-> e]

\* --------------------------------------------------- the Provider's effect
\* (an effect that notifies before it has written the ref)
CommitRefLate(st, changed) == ref

\* ref.current = state, for a render that returned st.  Broker.tsx: first
\* statement of the one effect, which runs whenever state or updates changed;
\* Subscription.tsx: an effect of its own on [state], declared first.
CommitRef(st, changed) ==
    IF variant = "Broker" \/ changed THEN st ELSE ref

\* Broker.tsx enters the loops only `if (updates.length > 0)`
EntersPass(upd) == variant = "BrokerWriter" \/ Len(upd) > 0

\* The head of the Provider's effect, for a render that returned st and left
\* the Pending Updates upd after the hook had emitted em.
ProviderEffect(st, changed, upd, em) ==
    /\ ref' = CommitRef(st, changed)
    /\ pc' = IF EntersPass(upd) THEN "notify" ELSE "idle"
    /\ i' = 1
    /\ j' = 1
    /\ passSubs' = IF EntersPass(upd) THEN subs ELSE [id \in Ids |-> <<>>]
    /\ passLog' = <<>>
    /\ emitted' = IF EntersPass(upd) THEN em ELSE <<>>
    /\ stateChanged' = FALSE
    /\ calls' = <<>>

\* One run of the hook: it returns a new State (changed) or the same one, and
\* emits the ids of e.  A run that does neither commits nothing.  When the
\* effect of a descendant is pending the commit stops after the render, for
\* that effect to run first; otherwise nothing comes between the render and
\* the Provider's effect, and the step goes on into it.
Transition(changed, e) ==
    /\ Idle
    /\ changed \/ e # <<>>
    /\ changed => state < MaxState
    /\ state' = IF changed THEN state + 1 ELSE state
    /\ updates' = RenderUpdates(e).list
    /\ resetUpdates' = RenderUpdates(e).reset
    /\ IF effectPending
       THEN /\ pc' = "rendered"
            /\ stateChanged' = changed
            /\ emitted' = e
            /\ calls' = <<>>
            /\ UNCHANGED <<ref, i, j, passLog, passSubs>>
       ELSE ProviderEffect(state', changed, updates', e)
    /\ UNCHANGED <<variant, subs, consumerVars, unreg>>

\* The rest of the render of useCore and of the Provider, for a hook run that
\* returned the writer wr: the memoized writer w, the object useCore returns
\* and the three context values the Provider memoizes.
MemoWriter(wr) ==
    IF areHookInputsEqual(objectUnpack(wr), objectUnpack(w)) THEN w ELSE wr

\* (a Provider that hands every render's ctx to StateContext)
StateContextUnmemoized(changed, ctx) == ctx

\* const state = useMemo(() => ctx, [ctx.state]): the object useCore returned in
\* the latest render whose state differed from that of the render before
StateContext(changed, ctx) == IF changed THEN ctx ELSE stateCtx

Provide(changed, wr) ==
    LET ctx == [state |-> state', writer |-> MemoWriter(wr)]
    IN  /\ writer' = wr
        /\ w' = MemoWriter(wr)
        /\ refCtx' = refCtx
        /\ stateCtx' = StateContext(changed, ctx)
        /\ writerCtx' = IF MemoWriter(wr) # w THEN ctx ELSE writerCtx

\* One commit of the Provider whose hook returns the writer it returned before.
Cycle(changed, e) ==
    /\ variant \in Variants
    /\ Transition(changed, e)
    /\ Provide(changed, writer)
    /\ UNCHANGED <<mounted, subsSet, failVars>>

\* the Provider's effect after the effects of its descendants
EffectStart ==
    /\ pc = "rendered"
    /\ ~effectPending
    /\ ProviderEffect(state, stateChanged, updates, emitted)
    /\ UNCHANGED <<variant, state, updates, resetUpdates, subs, consumerVars, unreg, extVars>>

\* f(ref.current) for the callback the inner iterator stands on
NotifyStep ==
    /\ pc = "notify"
    /\ i <= Len(updates)
    /\ j <= Len(subs[updates[i]])
    /\ LET id == updates[i]
           f == subs[id][j]
       IN  /\ subs' = InvokeSubs(subs, f, ref)
           /\ unreg' = Listed(subs', InvokeUnreg(unreg, f, ref))
           /\ localState' = InvokeLocal(localState, f, ref)
           /\ calls' = <<Notified(f, id, ref)>>
           /\ passLog' = Append(passLog, Notified(f, id, ref))
    /\ j' = j + 1
    /\ UNCHANGED <<variant, state, stateChanged, ref, updates, resetUpdates, pc, i,
                   subbed, ids, effectPending, cleanup, passSubs, emitted, extVars>>

\* the inner iterator is past the end of the array: next id
NotifyNext ==
    /\ pc = "notify"
    /\ i <= Len(updates)
    /\ j > Len(subs[updates[i]])
    /\ i' = i + 1
    /\ j' = 1
    /\ calls' = <<>>
    /\ UNCHANGED <<variant, state, stateChanged, ref, updates, resetUpdates, subs, pc,
                   consumerVars, passVars, unreg, extVars>>

\* Past the last id.  Broker.tsx sets resetUpdates.current = true and keeps
\* the array; the array of Subscription.tsx goes out of scope with the render.
EffectEnd ==
    /\ pc = "notify"
    /\ i > Len(updates)
    /\ resetUpdates' = IF variant = "Broker" THEN TRUE ELSE resetUpdates
    /\ updates' = IF variant = "Broker" THEN updates ELSE <<>>
    /\ pc' = "idle"
    /\ i' = 1
    /\ j' = 1
    /\ calls' = <<>>
    /\ passLog' = <<>>
    /\ passSubs' = [id \in Ids |-> <<>>]
    /\ emitted' = <<>>
    /\ UNCHANGED <<variant, state, stateChanged, ref, subs, consumerVars, unreg, extVars>>

\* ------------------------------------------------------------------ Next
Next ==
    \/ \E x \in IdArgs, sub \in Generic : Subscribe(x, sub)
    \/ \E x \in IdArgs, sub \in Generic : Unsubscribe(x, sub)
    \/ \E v \in BOOLEAN : SetSubbed(v)
    \/ \E l \in {<<>>, ConsumerIds} : SetIds(l)
    \/ ConsumerEffect
    \/ \E changed \in BOOLEAN, e \in SeqsUpTo(Ids, MaxEmit) : Cycle(changed, e)
    \/ EffectStart
    \/ NotifyStep
    \/ NotifyNext
    \/ EffectEnd
    \/ Returned

Spec == Init /\ [][Next]_vars

\* ------------------------------------------------- the writer's engine
\* The writers the hook of engine v can return
WritersOf(v) == IF v = "BrokerWriter" THEN Writers ELSE {NoWriter}

\* One commit of the Provider whose hook returns the writer wr
WriterCycle(changed, e, wr) ==
    /\ wr \in WritersOf(variant)
    /\ Transition(changed, e)
    /\ Provide(changed, wr)
    /\ UNCHANGED <<mounted, subsSet, failVars>>

\* A render of the Provider in which the hook returns the State it returned
\* before, emits nothing and returns another writer object.  Neither effect
\* of useCore has anything to do.
Rerender(wr) ==
    /\ Idle
    /\ wr \in WritersOf(variant)
    /\ wr # writer
    /\ UNCHANGED <<coreVars, subs, consumerVars, calls, passVars, unreg,
                   mounted, subsSet, failVars>>
    /\ Provide(FALSE, wr)

InitW == \E v \in Variants : \E wr \in WritersOf(v) : Start(v, NoSubs, ConsumerIds, wr)

NextW ==
    \/ \E changed \in BOOLEAN, e \in SeqsUpTo(Ids, 1), wr \in Writers :
           WriterCycle(changed, e, wr)
    \/ \E wr \in Writers : Rerender(wr)
    \/ NotifyStep
    \/ NotifyNext
    \/ EffectEnd

SpecW == InitW /\ [][NextW]_vars

\* ------------------------------------------------ a hook run that throws
\* The Pending Updates after a hook run that emitted the ids of e and threw.
\* The throw leaves useCore at the call of useHook, before any useEffect of
\* the render: React drops the render with what it queued.  Broker.tsx: the
\* setUpdates calls of update(id); Subscription.tsx: the render's local array.
ThrowUpdates(e) == updates

\* The hook emits the ids of e and throws.  No effect of the render runs.  What
\* update(id) wrote to resetUpdates.current (Broker.tsx 52) stays written.
HookThrows(e) ==
    /\ Idle
    /\ updates' = ThrowUpdates(e)
    /\ resetUpdates' = RenderUpdates(e).reset
    /\ pc' = "failed"
    /\ lost' = lost \cup Range(e)
    /\ UNCHANGED <<variant, state, stateChanged, ref, i, j, subs, consumerVars,
                   calls, passVars, unreg, viewVars, mounted, subsSet>>

\* React renders the tree again: it retries a render that threw an error, and
\* it renders again what a thrown promise had suspended.
Retry ==
    /\ pc = "failed"
    /\ pc' = "idle"
    /\ UNCHANGED <<variant, state, stateChanged, ref, updates, resetUpdates, i, j,
                   subs, consumerVars, calls, passVars, unreg, extVars>>

\* The error reaches the host: the tree is unmounted, and the cleanup of the
\* consumer's effect runs.
Teardown ==
    /\ pc = "failed"
    /\ pc' = "unmounted"
    /\ mounted' = FALSE
    /\ subs' = IF cleanup.has THEN RemoveAll(subs, cleanup.ids, "setState") ELSE subs
    /\ unreg' = Listed(subs', unreg \cup
                    (IF cleanup.has THEN Pairs(cleanup.ids, "setState") ELSE {}))
    /\ cleanup' = [has |-> FALSE, ids |-> <<>>]
    /\ effectPending' = FALSE
    /\ UNCHANGED <<variant, state, stateChanged, ref, updates, resetUpdates, i, j,
                   subbed, ids, localState, calls, passVars, viewVars, subsSet, failVars>>

\* One commit of the Provider: the hook returned, having emitted the ids of e.
\* (After a run that threw, Broker.tsx appends to the array it kept, which
\* grows without limit; the explored runs stop at MaxPending.)
Committed(changed, e) ==
    /\ Len(RenderUpdates(e).list) <= MaxPending
    /\ Transition(changed, e)
    /\ Provide(changed, writer)
    /\ lost' = lost \ Range(e)
    /\ UNCHANGED <<mounted, subsSet>>

NextT ==
    \/ \E e \in SeqsUpTo(Ids, MaxEmit) : HookThrows(e)
    \/ Retry
    \/ Teardown
    \/ \E changed \in BOOLEAN, e \in SeqsUpTo(Ids, MaxEmit) : Committed(changed, e)
    \/ NotifyStep
    \/ NotifyNext
    \/ EffectEnd

SpecT == Init /\ [][NextT]_vars

\* ------------------------------------------------ unsubscribe, at length
\* the registries that subscribe calls made before the consumer mounted can
\* have left: under every id any array of callbacks up to MaxLen
Registries == [Ids -> SeqsUpTo(Generic, MaxLen)]

InitU == \E v \in Variants, m \in Registries : Start(v, m, ConsumerIds, NoWriter)

NextU ==
    \/ \E x \in IdArgs, sub \in Generic : Unsubscribe(x, sub)
    \/ \E changed \in BOOLEAN, e \in SeqsUpTo(Ids, 1) : Cycle(changed, e)
    \/ NotifyStep
    \/ NotifyNext
    \/ EffectEnd

SpecU == InitU /\ [][NextU]_vars

\* ------------------------------------- the single-writer Subscription
\* src/src/Subscription.tsx, useCore of l. 29: variant = "Subscription".  Its
\* subscribers are a Set, which keeps insertion order and no duplicates.
\* (a subs.current that is an array: push)
SetPush(s, sub) == Append(s, sub)

\* subs.current.add(sub)
SetAdd(s, sub) == IF sub \in Range(s) THEN s ELSE Append(s, sub)

\* subs.current.delete(sub)
SetDelete(s, sub) == SelectSeq(s, LAMBDA g : g # sub)

\* What the invocation f(arg) does to the Set: "until" calls unsubscribe(until)
SimpleInvoke(s, f, arg) == IF Leaves(f, arg) THEN SetDelete(s, f) ELSE s

Called(f, arg, r) == [kind |-> "notify", cb |-> f, id |-> "", arg |-> arg, ref |-> r]

\* `for (const sub of subs.current) sub(state)`: a Set's iterator visits the
\* entries in insertion order and passes over those deleted before their
\* turn.  todo: the entries ahead when the loop began; s: the Set now; r: the
\* value of ref.current during the loop.  Gives the Set and the calls made.
RECURSIVE SimplePass(_, _, _, _)
SimplePass(todo, s, st, r) ==
    IF todo = <<>> THEN [set |-> s, log |-> <<>>]
    ELSE IF Head(todo) \notin Range(s) THEN SimplePass(Tail(todo), s, st, r)
    ELSE LET rest == SimplePass(Tail(todo), SimpleInvoke(s, Head(todo), st), st, r)
         IN  [set |-> rest.set, log |-> <<Called(Head(todo), st, r)>> \o rest.log]

simpleVars == <<variant, stateChanged, updates, resetUpdates, subs, i, j, ids,
                passVars, unreg, viewVars, failVars>>

\* subscribe(sub): add, then sub(ref.current)
SimpleSubscribe(sub) ==
    /\ Idle
    /\ variant = "Subscription"
    /\ subsSet' = SimpleInvoke(SetAdd(subsSet, sub), sub, ref)
    /\ calls' = <<Boot(sub, ref)>>
    /\ UNCHANGED <<simpleVars, state, ref, pc, subbed, localState, effectPending,
                   cleanup, mounted>>

\* unsubscribe(sub)
SimpleUnsubscribe(sub) ==
    /\ Idle
    /\ variant = "Subscription"
    /\ subsSet' = SetDelete(subsSet, sub)
    /\ calls' = <<>>
    /\ UNCHANGED <<simpleVars, state, ref, pc, subbed, localState, effectPending,
                   cleanup, mounted>>

\* A render in which the hook returns a new State, and the effect on [state]:
\* ref.current = state, then every subscriber is called with state.  (A render
\* that returns the State of the render before runs no effect.)
SimpleTransition ==
    /\ Idle
    /\ variant = "Subscription"
    /\ ~effectPending
    /\ state < MaxState
    /\ state' = state + 1
    /\ ref' = state + 1
    /\ LET pass == SimplePass(subsSet, subsSet, state + 1, state + 1)
       IN  /\ subsSet' = pass.set
           /\ calls' = pass.log
           /\ localState' = IF "setState" \in Range(subsSet) THEN state + 1
                             ELSE localState
    /\ UNCHANGED <<simpleVars, pc, subbed, effectPending, cleanup, mounted>>

\* The effect of the Subscription's useSubscription (l. 72-78): the previous
\* cleanup, then the body.
SimpleConsumerEffect ==
    /\ Idle
    /\ variant = "Subscription"
    /\ effectPending
    /\ LET cleaned == IF cleanup.has THEN SetDelete(subsSet, "setState") ELSE subsSet
       IN  IF subbed
           THEN /\ subsSet' = SetAdd(cleaned, "setState")
                /\ calls' = <<Boot("setState", ref)>>
                /\ localState' = ref
                /\ cleanup' = [has |-> TRUE, ids |-> <<>>]
           ELSE /\ subsSet' = cleaned
                /\ calls' = <<>>
                /\ localState' = localState
                /\ cleanup' = [has |-> FALSE, ids |-> <<>>]
    /\ effectPending' = FALSE
    /\ UNCHANGED <<simpleVars, state, ref, pc, subbed, mounted>>

InitS == Start("Subscription", NoSubs, <<>>, NoWriter)

NextS ==
    \/ \E sub \in Generic : SimpleSubscribe(sub)
    \/ \E sub \in Generic : SimpleUnsubscribe(sub)
    \/ SimpleTransition
    \/ \E v \in BOOLEAN : SetSubbed(v)
    \/ SimpleConsumerEffect
    \/ Returned

SpecS == InitS /\ [][NextS]_vars

\* ------------------------------------------------ the consumer's life
\* The three useSubscription hooks, with the engine's transitions and no
\* other subscriber.
\* the identifier lists a consumer is mounted with
ConsumerLists == {<<"a">>, <<"a", "b">>, <<"a", "a">>}

\* The consumer is unmounted: React runs the cleanup its effect last returned
\* and drops an effect that was still to run.
Unmount ==
    /\ Idle
    /\ mounted
    /\ mounted' = FALSE
    /\ IF variant = "Subscription"
       THEN /\ subsSet' = IF cleanup.has THEN SetDelete(subsSet, "setState")
                           ELSE subsSet
            /\ UNCHANGED <<subs, unreg>>
       ELSE /\ subs' = IF cleanup.has THEN RemoveAll(subs, cleanup.ids, "setState")
                        ELSE subs
            /\ unreg' = Listed(subs', unreg \cup
                            (IF cleanup.has THEN Pairs(cleanup.ids, "setState") ELSE {}))
            /\ UNCHANGED subsSet
    /\ cleanup' = [has |-> FALSE, ids |-> <<>>]
    /\ effectPending' = FALSE
    /\ calls' = <<>>
    /\ UNCHANGED <<coreVars, subbed, ids, localState, passVars, viewVars, failVars>>

InitC ==
    \/ \E v \in Variants, l \in ConsumerLists : Start(v, NoSubs, l, NoWriter)
    \/ InitS

NextC ==
    \/ \E v \in BOOLEAN : SetSubbed(v)
    \/ \E l \in {<<>>} \cup ConsumerLists : SetIds(l)
    \/ ConsumerEffect
    \/ SimpleConsumerEffect
    \/ Unmount
    \/ \E changed \in BOOLEAN, e \in SeqsUpTo(Ids, MaxEmit) : Cycle(changed, e)
    \/ SimpleTransition
    \/ EffectStart
    \/ NotifyStep
    \/ NotifyNext
    \/ EffectEnd
    \/ Returned

SpecC == InitC /\ [][NextC]_vars

TypeOK ==
    /\ variant \in Variants \cup {"Subscription"}
    /\ state \in 0..MaxState
    /\ ref \in 0..MaxState
    /\ pc \in {"idle", "rendered", "notify", "failed", "unmounted"}
    /\ \A id \in Ids : Len(subs[id]) <= MaxLen + Len(ConsumerIds)
    /\ \A id \in Ids : Range(subs[id]) \subseteq Callbacks
\* ======================================================================
\* Properties
\* ======================================================================
\* the notify pass has run to its end (EffectEnd is the next step)
PassDone == pc = "notify" /\ i > Len(updates)

\* notifications of callback f for identifier id in the running pass
Notifs(f, id) ==
    Cardinality({k \in DOMAIN passLog : passLog[k].cb = f /\ passLog[k].id = id})

\* Pending Updates as the engine reads them: Broker.tsx keeps the array and
\* marks it spent with resetUpdates.current
PendingUpdates == IF variant = "Broker" /\ resetUpdates THEN <<>> ELSE updates

\* a step registered f under some identifier
Grew(f) == \E id \in Ids : Count(subs'[id], f) > Count(subs[id], f)

\* C1 Delivery: when the pass of a transition has run, every callback that
\* was registered under an emitted id when the pass began (and still is) has
\* been invoked in the pass with the State the transition produced.
C1_Delivery ==
    PassDone =>
        \A id \in Range(emitted), f \in Callbacks :
            (Count(passSubs[id], f) > 0 /\ Count(subs[id], f) > 0)
                => \E k \in DOMAIN passLog : passLog[k] = Notified(f, id, state)

\* C2 Isolation: a callback registered under no identifier the transition
\* emitted receives no notification in the transition's pass; a transition
\* that emits nothing notifies nobody.
C2_Isolation ==
    \A f \in Callbacks :
        (\A id \in Range(emitted) : Count(passSubs[id], f) = 0)
            => \A k \in DOMAIN passLog : passLog[k].cb # f

\* C3 Dedup per transition: however many times the transition emitted an
\* identifier, a callback registered once under it has been invoked exactly
\* once when the pass has run (no callback unregistered anything meanwhile).
C3_DedupPerTransition ==
    (PassDone /\ passSubs = subs) =>
        \A id \in Range(emitted), f \in Callbacks :
            Count(passSubs[id], f) = 1 => Notifs(f, id) = 1

\* C4 Bootstrap: a step that registers a callback, under one identifier or
\* under several, invokes that callback exactly once, with the Snapshot
\* Reference, and is no transition: state and ref stay as they are.
C4_Bootstrap ==
    [][\A f \in Callbacks :
           Grew(f) => /\ calls' = <<Boot(f, ref)>>
                      /\ ref' = ref
                      /\ state' = state]_vars

\* C4 witness: before any transition, f has been registered under both
\* identifiers and bootstrapped with the initial State.
C4_Witness ==
    /\ state = 0
    /\ calls = <<Boot("f", 0)>>
    /\ Count(subs["a"], "f") = 1
    /\ Count(subs["b"], "f") = 1

\* C5 Update attribution: Pending Updates is empty whenever the engine is
\* idle, and every notification of a pass is for an identifier the running
\* transition emitted.
C5_UpdateAttribution ==
    /\ pc = "idle" => PendingUpdates = <<>>
    /\ \A k \in DOMAIN passLog : passLog[k].id \in Range(emitted)

\* C6 Commit precedes Notify: throughout a notify pass the Snapshot Reference
\* is the State of the transition, and every callback of the pass was given
\* that State.
C6_CommitPrecedesNotify ==
    /\ pc = "notify" => ref = state
    /\ \A k \in DOMAIN passLog : passLog[k].arg = state /\ passLog[k].arg = ref

\* C6 witness: a pass after the second state change has notified two
\* different callbacks.
C6_Witness ==
    /\ pc = "notify"
    /\ state = 2
    /\ Len(passLog) >= 2
    /\ passLog[1].cb # passLog[2].cb

\* C7 Unsubscribe takes effect: no notification goes to a callback for an
\* identifier under which it has been unregistered and not registered since.
C7_UnsubscribeTakesEffect ==
    [][\A k \in DOMAIN calls' :
           calls'[k].kind = "notify" => <<calls'[k].cb, calls'[k].id>> \notin unreg]_vars

\* C8 Fresh snapshot: every bootstrap invocation is given the State of the
\* most recent transition.
C8_FreshSnapshot ==
    \A k \in DOMAIN calls : calls[k].kind = "boot" => calls[k].arg = state

\* C9 Iteration safety: when callbacks unregistered during the pass, every
\* callback registered once under an identifier (emitted once) at the start
\* of the pass and still registered at its end was invoked exactly once.
C9_IterationSafety ==
    (PassDone /\ passSubs # subs) =>
        \A id \in Range(emitted), f \in Callbacks :
            (Count(emitted, id) = 1 /\ Count(passSubs[id], f) = 1 /\ Count(subs[id], f) = 1)
                => Notifs(f, id) = 1

\* C10 Unsubscribe idempotence: unregistering a callback that is under none
\* of the ids leaves the registry as it is, and unregistering twice gives the
\* registry that unregistering once gives.
C10_UnsubscribeIdempotent ==
    \A x \in IdArgs, f \in Callbacks :
        /\ (\A id \in Range(Unscalar(x)) : Count(subs[id], f) = 0)
               => UnsubscribeSubs(subs, x, f) = subs
        /\ UnsubscribeSubs(UnsubscribeSubs(subs, x, f), x, f) = UnsubscribeSubs(subs, x, f)

\* C11 Writer stability: when the writer the hook returns has the same fields
\* with the same values as the writer it returned in the render before, the
\* writer the engine exposes keeps its identity; it is replaced only when the
\* field set or a field value differs.
C11_WriterStability ==
    [][FieldSet(writer') = FieldSet(writer) => w' = w]_vars

\* C12 No partial commit on failure: after a hook run that threw, the Snapshot
\* Reference holds the State committed before and no callback has been invoked;
\* no pass processes or notifies an identifier that a run that threw has
\* emitted and no transition committed since has.
C12_NoPartialCommit ==
    /\ pc = "failed" => (ref = state /\ calls = <<>> /\ passLog = <<>>)
    /\ pc = "notify" => Range(updates) \cap lost = {}
    /\ \A k \in DOMAIN passLog : passLog[k].id \notin lost

\* C13 Registry uniqueness: in every reachable state a callback appears at
\* most once in the array of an identifier.
C13_RegistryUnique ==
    \A id \in Ids, f \in Callbacks : Count(subs[id], f) <= 1

\* the notifications of registry m for the ids of e, one id after the other in
\* the order of e, the callbacks of an id in the order of its array
RECURSIVE InOrder(_, _, _)
InOrder(m, e, st) ==
    IF e = <<>> THEN <<>>
    ELSE [k \in DOMAIN m[Head(e)] |-> Notified(m[Head(e)][k], Head(e), st)]
             \o InOrder(m, Tail(e), st)

\* C14 Notification order: the calls of a pass, during which no callback
\* changed the registry, are those the registry and the emitted sequence
\* determine: the emitted ids in emission order, and for each the callbacks
\* registered under it in registration order.
C14_NotificationOrder ==
    (PassDone /\ passSubs = subs) => passLog = InOrder(passSubs, emitted, state)

\* the entries of s other than f, in their order
Others(s, f) == SelectSeq(s, LAMBDA g : g # f)

\* r is s without its first c entries f: up to the c-th f the other entries
\* stay, from there on everything stays
FirstRemoved(s, r, f, c) ==
    \E n \in 0..Len(s) :
        /\ Count(SubSeq(s, 1, n), f) = c
        /\ n = 0 \/ s[n] = f
        /\ r = Others(SubSeq(s, 1, n), f) \o SubSeq(s, n + 1, Len(s))

\* C15 Unregister frame: unsubscribe(ids, cb) takes from the array of each
\* listed id the first occurrence of cb (one for every time the id is listed)
\* and leaves every other entry, its order, and the arrays of the other ids;
\* a callback registered twice under an id, before and after a pass for that
\* id, has been notified twice by it.
C15_UnregisterFrame ==
    /\ \A x \in IdArgs, f \in Callbacks, id \in Ids :
           FirstRemoved(subs[id], UnsubscribeSubs(subs, x, f)[id], f,
                        Min(Count(Unscalar(x), id), Count(subs[id], f)))
    /\ PassDone =>
           \A id \in Range(emitted), f \in Callbacks :
               (Count(emitted, id) = 1 /\ Count(passSubs[id], f) = 2
                                      /\ Count(subs[id], f) = 2)
                   => Notifs(f, id) = 2

\* C16 Writer visibility: the writer that subscribe-to-slice (RefContext),
\* whole-state read (StateContext) and write-only access (WriterContext) see
\* is the engine's current writer.
C16_WriterVisibility ==
    /\ refCtx.writer = w
    /\ stateCtx.writer = w
    /\ writerCtx.writer = w

\* C17 Whole-state read is coarse-grained: the value whole-state readers are
\* given is replaced by every step that changes the State, whatever it
\* emitted, and by no step that leaves the State as it was.
C17_WholeStateCoarse ==
    [][(stateCtx' # stateCtx) <=> (state' # state)]_vars

\* C17 witness: the second change of the State, by a transition that emitted
\* nothing, has replaced the value.
C17_Witness ==
    /\ pc = "notify"
    /\ emitted = <<>>
    /\ state = 2
    /\ stateCtx.state = 2

\* calls of a step to callback f
CallsTo(log, f) == Cardinality({k \in DOMAIN log : log[k].cb = f})

\* C20 Single-writer Subscription: the subscriber Set never holds a callback
\* twice; a step that changes the State calls every callback subscribed when
\* it began exactly once, with the new State and with the ref already set to
\* it, and calls no other; one unsubscribe leaves nothing of a callback.
C20_SimpleSubscription ==
    [][/\ Cardinality(Range(subsSet')) = Len(subsSet')
       /\ \A f \in Callbacks : f \notin Range(SetDelete(subsSet', f))
       /\ state' # state =>
              /\ \A f \in Callbacks :
                     CallsTo(calls', f) = IF f \in Range(subsSet) THEN 1 ELSE 0
              /\ \A k \in DOMAIN calls' :
                     /\ calls'[k].arg = state'
                     /\ calls'[k].ref = state'
                     /\ ref' = state']_vars

\* C20 witness: the second change of the State has called two subscribers.
C20_Witness ==
    /\ variant = "Subscription"
    /\ state = 2
    /\ Len(calls) = 2
    /\ calls[1].kind = "notify"

\* how often the consumer's callback is registered under id
ConsumerCount(id) ==
    IF variant = "Subscription" THEN Count(subsSet, "setState")
    ELSE Count(subs[id], "setState")

\* the identifiers the consumer subscribes to (the simple variant has one
\* anonymous slice)
ConsumerHas(id) == variant = "Subscription" \/ id \in Range(ids)

\* C18 Subscribe-to-slice flag/registry invariant: when no commit is in
\* progress or pending, the consumer's callback is registered exactly once
\* under each of its identifiers if the consumer is mounted and its flag is
\* true, and under no identifier otherwise.
C18_FlagRegistry ==
    (Idle /\ ~effectPending) =>
        \A id \in Ids :
            ConsumerCount(id) = IF mounted /\ Active /\ ConsumerHas(id) THEN 1 ELSE 0

\* the transition emitted no identifier twice
Distinct(e) == \A id \in Ids : Count(e, id) <= 1

\* C19 Multi-identifier subscriber: when the pass of a transition that emitted
\* distinct identifiers has run (and no callback changed the registry
\* meanwhile), a callback registered at most once under every identifier has
\* been notified once for each emitted identifier it is registered under and
\* for no other, each time with the State of the transition.
C19_MultiIdentifier ==
    (PassDone /\ passSubs = subs /\ Distinct(emitted)) =>
        \A f \in Callbacks :
            (\A id \in Ids : Count(passSubs[id], f) <= 1) =>
                /\ \A id \in Ids :
                       Notifs(f, id) = IF id \in Range(emitted) /\ Count(passSubs[id], f) = 1
                                       THEN 1 ELSE 0
                /\ \A k \in DOMAIN passLog : passLog[k].cb = f => passLog[k].arg = state
====
